---- MODULE Spec2Model ----
(***************************************************************************)
(* Persistence core of the conversational-practice tool (src/database.py). *)
(*                                                                         *)
(* Every helper of database.py runs inside one get_db_connection() scope:  *)
(* connect, the statements of the body, commit (or rollback), close.  The  *)
(* statements are the atomic steps; two callers interleave between them.   *)
(* The database is PostgreSQL at its default isolation (READ COMMITTED):   *)
(* a statement sees what was committed when it runs, a write stays private *)
(* to its transaction until commit, and CURRENT_TIMESTAMP is the time at   *)
(* which the transaction started (its first statement).                    *)
(***************************************************************************)
EXTENDS Integers, Sequences, FiniteSets, TLC

\* ---------------------------------------------------------------- bounds
\* Longest chat on display.
MaxChat == 4
\* Largest clock value; every writing transaction takes at least one tick.
MaxClock == 4
\* Largest student_id.
MaxStudentId == 2
\* Number of session tokens.
MaxSessionId == 3
\* Largest message_id.
MaxMessageId == 2
\* Clock ticks in one second (timestamps are finer than strftime's seconds).
TicksPerSecond == 2

\* ------------------------------------------------------------ input sets
Procs == {"p1", "p2"}
Emails == {"a@x.io", "b@x.io"}
\* Emails that are empty or hold only whitespace.
BlankEmails == {"", " "}
\* What a user may type into the login form: email and name.
TypedEmails == {"", " ", "ax", " A@x.io "}
TypedNames == {"Asha ", " "}
Names == {"Asha", "Ben"}
ClientTypes == {"Pritam"}
SenderTypes == {"user", "assistant"}
\* A text is the sequence of its code points: "hi", "ok".
Hi == <<104, 105>>
Ok == <<111, 107>>
Contents == {Hi, Ok}
\* Texts with a newline, a quote, letters outside ASCII, a NUL; the empty text.
RichContents == {<<233, 10, 39>>, <<104, 8364, 39, 39>>, <<104, 0>>, <<>>}
StudentIds == 1..MaxStudentId
SessionIds == 1..MaxSessionId
MessageIds == 1..MaxMessageId

VARIABLES
  students,      \* committed rows of table students
  sessions,      \* committed rows of table sessions
  messages,      \* committed rows of table messages
  now,           \* the database clock
  pc,            \* per caller: where it is in its operation
  op,            \* per caller: the operation called and its arguments
  conn,          \* per caller: the connection of its scope
  fetched,       \* per caller: what its SELECT fetched, while the body needs it
  pending,       \* per caller: the uncommitted write of its transaction
  outcome,       \* per caller: how the last operation ended
  result,        \* per caller: what the last operation returned
  createLog,     \* history: what create_session returned, in order
  appendLog,     \* history: the save_message calls that returned, in order
  issuedIds,     \* history: per email, the ids get_or_create_student returned
  current_user_id,       \* frontend global
  current_session_id,    \* frontend global
  current_session_name,  \* frontend global
  login_screen,  \* the login screen is visible
  chat_screen,   \* the chat screen is visible
  chatbot,       \* the chat history on display
  event          \* the frontend handler that runs, or the last that returned

dbvars == <<students, sessions, messages>>
procvars == <<pc, op, conn, fetched, pending, outcome, result>>
histvars == <<createLog, appendLog, issuedIds>>
globals == <<current_user_id, current_session_id, current_session_name>>
uivars == <<current_user_id, current_session_id, current_session_name, login_screen,
            chat_screen, chatbot, event>>
vars == <<students, sessions, messages, now, pc, op, conn, fetched, pending, outcome, result,
          createLog, appendLog, issuedIds, current_user_id, current_session_id,
          current_session_name, login_screen, chat_screen, chatbot, event>>

NoOp == [name |-> "none"]
NoWrite == [kind |-> "none"]
NoResult == [kind |-> "none"]
\* conn = None before connect.  scopes counts the scopes the operation has
\* entered, body tells how the body of the scope was left, tx what became of
\* the transaction, start is the clock reading of the transaction.
\* None, where a text is expected; the session tokens are numbers, none is 0.
None == "None"
NoSessionId == 0
\* No frontend handler has been called.
NoEvent == [name |-> "none", stage |-> "returned"]
NoConn == [state |-> "none", scopes |-> 0, body |-> "none", tx |-> "none", start |-> 0]

Max(S) == CHOOSE x \in S : \A y \in S : y <= x
Min(S) == CHOOSE x \in S : \A y \in S : x <= y

\* f"Session-{n}"
SessionName(n) == "Session-" \o ToString(n)

\* created_at.strftime("%Y-%m-%d %H:%M:%S"): the timestamp cut to whole seconds.
Strftime(ts) == ts \div TicksPerSecond

\* ------------------------------------------------------------- strings
\* The characters str.strip() takes off both ends.
Whitespace == {" ", "\t"}

RECURSIVE LStrip(_)
LStrip(s) ==
  IF Len(s) > 0 /\ SubSeq(s, 1, 1) \in Whitespace THEN LStrip(SubSeq(s, 2, Len(s))) ELSE s

RECURSIVE RStrip(_)
RStrip(s) ==
  IF Len(s) > 0 /\ SubSeq(s, Len(s), Len(s)) \in Whitespace
  THEN RStrip(SubSeq(s, 1, Len(s) - 1))
  ELSE s

\* s.strip()
Strip(s) == RStrip(LStrip(s))

\* c in s, for a character c
Contains(s, c) == \E i \in 1..Len(s) : SubSeq(s, i, i) = c

UpperCase == "ABCDEFGHIJKLMNOPQRSTUVWXYZ"
LowerCase == "abcdefghijklmnopqrstuvwxyz"

LowerChar(c) ==
  IF Contains(UpperCase, c)
  THEN LET i == CHOOSE k \in 1..Len(UpperCase) : SubSeq(UpperCase, k, k) = c
       IN SubSeq(LowerCase, i, i)
  ELSE c

\* s.lower()
RECURSIVE Lower(_)
Lower(s) ==
  IF Len(s) = 0 THEN s ELSE LowerChar(SubSeq(s, 1, 1)) \o Lower(SubSeq(s, 2, Len(s)))

\* ------------------------------------------------ texts on the connection
\* The connection carries texts as UTF-8: one, two or three bytes for a code
\* point of the basic plane.
Utf8Bytes(cp) ==
  IF cp < 128 THEN <<cp>>
  ELSE IF cp < 2048 THEN <<192 + (cp \div 64), 128 + (cp % 64)>>
  ELSE <<224 + (cp \div 4096), 128 + ((cp \div 64) % 64), 128 + (cp % 64)>>

RECURSIVE Utf8Encode(_)
Utf8Encode(text) ==
  IF text = <<>> THEN <<>> ELSE Utf8Bytes(Head(text)) \o Utf8Encode(Tail(text))

\* Mutant: the bytes are read as Latin-1, one character each.
Latin1Decode(bytes) == bytes

RECURSIVE Utf8Decode(_)
Utf8Decode(bytes) ==
  IF bytes = <<>> THEN <<>>
  ELSE IF bytes[1] < 128 THEN <<bytes[1]>> \o Utf8Decode(Tail(bytes))
  ELSE IF bytes[1] < 224
  THEN <<(bytes[1] - 192) * 64 + (bytes[2] - 128)>> \o Utf8Decode(SubSeq(bytes, 3, Len(bytes)))
  ELSE <<(bytes[1] - 224) * 4096 + (bytes[2] - 128) * 64 + (bytes[3] - 128)>>
         \o Utf8Decode(SubSeq(bytes, 4, Len(bytes)))

\* A query parameter goes out as a quoted literal: a quote inside is doubled.
RECURSIVE QuoteLiteral(_)
QuoteLiteral(bytes) ==
  IF bytes = <<>> THEN <<>>
  ELSE (IF Head(bytes) = 39 THEN <<39, 39>> ELSE <<Head(bytes)>>) \o QuoteLiteral(Tail(bytes))

\* The server reads the literal: a doubled quote is one quote.
RECURSIVE ParseLiteral(_)
ParseLiteral(bytes) ==
  IF bytes = <<>> THEN <<>>
  ELSE IF Head(bytes) = 39 /\ Len(bytes) > 1 /\ bytes[2] = 39
  THEN <<39>> \o ParseLiteral(SubSeq(bytes, 3, Len(bytes)))
  ELSE <<Head(bytes)>> \o ParseLiteral(Tail(bytes))

\* A literal cannot hold a NUL character: execute raises ValueError.
Adaptable(text) == \A i \in 1..Len(text) : text[i] # 0

\* cursor.execute(query, (..., text, ...)): what the server stores for a text
\* parameter.
StoredText(text) == Utf8Decode(ParseLiteral(QuoteLiteral(Utf8Encode(text))))

\* row['content']: what the client gets for a stored text.
FetchedText(text) == Utf8Decode(Utf8Encode(text))

\* The frontend module as loaded: the three globals are None, the login
\* column is built visible and the chat column hidden, the chatbot is empty.
InitFrontend ==
  /\ current_user_id = None
  /\ current_session_id = NoSessionId
  /\ current_session_name = None
  /\ login_screen = TRUE
  /\ chat_screen = FALSE
  /\ chatbot = <<>>
  /\ event = NoEvent

Init ==
  /\ students = {}
  /\ sessions = {}
  /\ messages = {}
  /\ now = 0
  /\ pc = [p \in Procs |-> "idle"]
  /\ op = [p \in Procs |-> NoOp]
  /\ conn = [p \in Procs |-> NoConn]
  /\ fetched = [p \in Procs |-> 0]
  /\ pending = [p \in Procs |-> NoWrite]
  /\ outcome = [p \in Procs |-> "none"]
  /\ result = [p \in Procs |-> NoResult]
  /\ createLog = <<>>
  /\ appendLog = <<>>
  /\ issuedIds = [e \in Emails \cup BlankEmails |-> {}]
  /\ InitFrontend


\* ------------------------------------------------------------- scheduling
InFlight(p) == pc[p] \notin {"idle", "done"}

\* The operations that store CURRENT_TIMESTAMP in a row.
Writers == {"get_or_create_student", "create_session", "save_message"}

\* Writing operations under way; each takes the clock at most one tick further.
OpenWriters == Cardinality({q \in Procs : InFlight(q) /\ op[q].name \in Writers})

\* Callers of operation `name` that have not yet reached one of `after`.
Upcoming(name, after) ==
  Cardinality({q \in Procs : InFlight(q) /\ op[q].name = name /\ pc[q] \notin after})

\* The first statement of each operation, run right after the scope yields.
FirstStatement(o) ==
  CASE o.name = "get_or_create_student" -> "goc_select"
    [] o.name = "create_session" -> "cs_count"
    [] o.name = "save_message" -> "sm_nextseq"
    [] OTHER -> "query"

\* ------------------------------------------------- get_db_connection scope
\* psycopg2.connect succeeds; the scope yields the connection to the body.
Connected == [state |-> "open", scopes |-> 1, body |-> "running", tx |-> "none", start |-> 0]

\* psycopg2.connect raises: conn stays None, so there is neither rollback nor
\* close, and the failure is re-raised to the caller.
NotConnected == [NoConn EXCEPT !.scopes = 1]

\* A caller enters an operation, `with get_db_connection() as conn:`.  Nothing
\* of the previous call is kept; the connect succeeds or raises.
Enter(p, o) ==
  /\ pc[p] \in {"idle", "done"}
  /\ o.name \in Writers => now + OpenWriters < MaxClock
  /\ op' = [op EXCEPT ![p] = o]
  /\ fetched' = [fetched EXCEPT ![p] = 0]
  /\ pending' = [pending EXCEPT ![p] = NoWrite]
  /\ result' = [result EXCEPT ![p] = NoResult]
  /\ \/ /\ conn' = [conn EXCEPT ![p] = Connected]
        /\ outcome' = [outcome EXCEPT ![p] = "none"]
        /\ pc' = [pc EXCEPT ![p] = FirstStatement(o)]
     \/ /\ conn' = [conn EXCEPT ![p] = NotConnected]
        /\ outcome' = [outcome EXCEPT ![p] = "OperationalError"]
        /\ pc' = [pc EXCEPT ![p] = "done"]
  /\ UNCHANGED <<dbvars, now, histvars>>

\* Caller q is in a writing transaction that read the clock, and the clock
\* has not moved since.  Only the order of the clock readings that reach a row
\* matters, so the clock moves on only from such an instant.
AtThisInstant(q) ==
  op[q].name \in Writers /\ conn[q].tx # "none" /\ conn[q].start = now

\* The first execute on a connection opens the transaction; CURRENT_TIMESTAMP
\* is that moment for every statement of the transaction.  It is the instant
\* another open transaction read, or a later one.
Begin(p) ==
  \E dt \in {0, 1} :
    /\ dt = 1 => op[p].name \in Writers /\ \E q \in Procs \ {p} : InFlight(q) /\ AtThisInstant(q)
    /\ conn' = [conn EXCEPT ![p] = [@ EXCEPT !.tx = "active", !.start = now + dt]]
    /\ now' = now + dt

\* The connection once a statement was sent on it: a transaction is open.
Begun(c) == IF c.tx = "none" THEN [c EXCEPT !.tx = "active", !.start = now] ELSE c

\* A statement of the body raises (the backend went away, a timeout, ...).
ExecFail(p) ==
  /\ pc[p] \in {"goc_select", "goc_update", "goc_insert", "cs_count", "cs_insert",
                "sm_nextseq", "sm_insert", "query"}
  /\ conn' = [conn EXCEPT ![p] = Begun(@)]
  /\ outcome' = [outcome EXCEPT ![p] = "OperationalError"]
  /\ result' = [result EXCEPT ![p] = NoResult]
  /\ fetched' = [fetched EXCEPT ![p] = 0]
  /\ pc' = [pc EXCEPT ![p] = "rollback"]
  /\ UNCHANGED <<dbvars, now, op, pending, histvars, uivars>>

\* Mutant: the UPDATE has no WHERE clause, every student's last_login is set.
ApplyStudentsNoWhere(w) ==
  CASE w.kind = "insert_student" -> students \cup {w.row}
    [] w.kind = "update_last_login" -> {[s EXCEPT !.last_login = w.ts] : s \in students}
    [] OTHER -> students

\* What a committed write does to the three tables.
ApplyStudents(w) ==
  CASE w.kind = "insert_student" -> students \cup {w.row}
    [] w.kind = "update_last_login" ->
         {IF s.student_id = w.student_id THEN [s EXCEPT !.last_login = w.ts] ELSE s
            : s \in students}
    [] OTHER -> students

ApplySessions(w) ==
  IF w.kind = "insert_session" THEN sessions \cup {w.row} ELSE sessions

ApplyMessages(w) ==
  IF w.kind = "insert_message" THEN messages \cup {w.row} ELSE messages

\* conn.commit() after the body completed normally.
Commit(p) ==
  /\ pc[p] = "commit"
  /\ students' = ApplyStudents(pending[p])
  /\ sessions' = ApplySessions(pending[p])
  /\ messages' = ApplyMessages(pending[p])
  /\ pending' = [pending EXCEPT ![p] = NoWrite]
  /\ conn' = [conn EXCEPT ![p] = [@ EXCEPT !.body = "returned", !.tx = "committed"]]
  /\ outcome' = [outcome EXCEPT ![p] = "ok"]
  /\ pc' = [pc EXCEPT ![p] = "close"]
  /\ UNCHANGED <<now, op, fetched, result, histvars, uivars>>

\* conn.commit() raises: control goes to the except branch.
CommitFail(p) ==
  /\ pc[p] = "commit"
  /\ conn' = [conn EXCEPT ![p] = [@ EXCEPT !.body = "returned"]]
  /\ outcome' = [outcome EXCEPT ![p] = "OperationalError"]
  /\ result' = [result EXCEPT ![p] = NoResult]
  /\ pc' = [pc EXCEPT ![p] = "rollback"]
  /\ UNCHANGED <<dbvars, now, op, fetched, pending, histvars, uivars>>

\* The body raised unless it had returned and it was the commit that raised.
Left(c) == IF c.body = "returned" THEN c ELSE [c EXCEPT !.body = "raised"]

\* Mutant: the except branch calls commit where it should call rollback.
RollbackCommits(p) ==
  /\ pc[p] = "rollback"
  /\ students' = ApplyStudents(pending[p])
  /\ sessions' = ApplySessions(pending[p])
  /\ messages' = ApplyMessages(pending[p])
  /\ pending' = [pending EXCEPT ![p] = NoWrite]
  /\ conn' = [conn EXCEPT ![p] = [Left(@) EXCEPT !.tx = "rolledback"]]
  /\ pc' = [pc EXCEPT ![p] = "close"]
  /\ UNCHANGED <<now, op, fetched, outcome, result, histvars, uivars>>

\* except: conn.rollback(); raise e
Rollback(p) ==
  /\ pc[p] = "rollback"
  /\ pending' = [pending EXCEPT ![p] = NoWrite]
  /\ conn' = [conn EXCEPT ![p] = [Left(@) EXCEPT !.tx = "rolledback"]]
  /\ pc' = [pc EXCEPT ![p] = "close"]
  /\ UNCHANGED <<dbvars, now, op, fetched, outcome, result, histvars, uivars>>

\* conn.rollback() itself raises on a broken connection: that exception
\* replaces the first one, and finally still closes the connection.
RollbackFail(p) ==
  /\ pc[p] = "rollback"
  /\ outcome' = [outcome EXCEPT ![p] = "InterfaceError"]
  /\ conn' = [conn EXCEPT ![p] = [Left(@) EXCEPT !.tx = "rollback_raised"]]
  /\ pc' = [pc EXCEPT ![p] = "close"]
  /\ UNCHANGED <<dbvars, now, op, fetched, pending, result, histvars, uivars>>

\* What the caller's return adds to the histories.
LoggedCreate(p) ==
  IF outcome[p] = "ok" /\ op[p].name = "create_session"
  THEN Append(createLog, [session_id |-> result[p].session_id,
                          session_name |-> result[p].session_name,
                          student_id |-> op[p].student_id])
  ELSE createLog

LoggedAppend(p) ==
  IF outcome[p] = "ok" /\ op[p].name = "save_message"
  THEN Append(appendLog, [session_id |-> op[p].session_id,
                          sender_type |-> op[p].sender_type,
                          content |-> op[p].content])
  ELSE appendLog

LoggedLogin(p) ==
  IF outcome[p] = "ok" /\ op[p].name = "get_or_create_student"
  THEN [issuedIds EXCEPT ![op[p].email] = @ \cup {result[p].student_id}]
  ELSE issuedIds

\* Mutant: the close is not in a finally; a failure leaves the connection open.
CloseUnlessRaised(p) ==
  /\ pc[p] = "close"
  /\ conn' = [conn EXCEPT ![p] = [@ EXCEPT !.state = IF outcome[p] = "ok" THEN "closed" ELSE @,
                                          !.start = 0]]
  /\ pending' = [pending EXCEPT ![p] = NoWrite]
  /\ now' = IF AtThisInstant(p) /\ conn[p].tx = "committed" THEN now + 1 ELSE now
  /\ createLog' = LoggedCreate(p)
  /\ appendLog' = LoggedAppend(p)
  /\ issuedIds' = LoggedLogin(p)
  /\ pc' = [pc EXCEPT ![p] = "done"]
  /\ UNCHANGED <<dbvars, op, fetched, outcome, result, uivars>>

\* finally: conn.close(), then the operation returns or raises.  The server
\* drops a transaction that is still open.  A transaction takes time: whatever
\* starts after the close reads a later clock than a row this one wrote.
Close(p) ==
  /\ pc[p] = "close"
  /\ conn' = [conn EXCEPT ![p] = [@ EXCEPT !.state = "closed", !.start = 0]]
  /\ pending' = [pending EXCEPT ![p] = NoWrite]
  /\ now' = IF AtThisInstant(p) /\ conn[p].tx = "committed" THEN now + 1 ELSE now
  /\ createLog' = LoggedCreate(p)
  /\ appendLog' = LoggedAppend(p)
  /\ issuedIds' = LoggedLogin(p)
  /\ pc' = [pc EXCEPT ![p] = "done"]
  /\ UNCHANGED <<dbvars, op, fetched, outcome, result, uivars>>

\* ------------------------------------------------- schema (constraints)
\* A generated key (student_id, message_id) or a uuid4() token is one that no
\* row and no open transaction holds.  Keys are only ever compared for
\* equality, so the least free one stands for whichever is generated.
FreeStudentIds ==
  StudentIds \ ({s.student_id : s \in students}
                 \cup {pending[q].row.student_id
                         : q \in {r \in Procs : pending[r].kind = "insert_student"}})

FreeMessageIds ==
  MessageIds \ ({m.message_id : m \in messages}
                 \cup {pending[q].row.message_id
                         : q \in {r \in Procs : pending[r].kind = "insert_message"}})

FreeSessionIds ==
  SessionIds \ ({s.session_id : s \in sessions}
                 \cup {result[q].session_id
                         : q \in {r \in Procs : InFlight(r) /\ result[r].kind = "session"}})

\* Mutant: students.email carries no unique constraint.
EmailNeverTaken(email) == FALSE

\* students.email is UNIQUE: a committed row with this email rejects the insert.
EmailTaken(email) == \E s \in students : s.email = email

\* Another open transaction has inserted this email: the insert waits for it.
EmailInsertedBy(q, email) ==
  pending[q].kind = "insert_student" /\ pending[q].row.email = email

\* sessions.student_id references students.
StudentRowExists(student_id) == \E s \in students : s.student_id = student_id

\* Mutant: messages.session_id carries no reference, any token is accepted.
SessionRowUnchecked(session_id) == TRUE

\* messages.session_id references sessions.
SessionRowExists(session_id) == \E s \in sessions : s.session_id = session_id

\* A statement fails on a constraint: the body raises IntegrityError.
Violation(p) ==
  /\ outcome' = [outcome EXCEPT ![p] = "IntegrityError"]
  /\ result' = [result EXCEPT ![p] = NoResult]
  /\ fetched' = [fetched EXCEPT ![p] = 0]
  /\ pc' = [pc EXCEPT ![p] = "rollback"]
  /\ UNCHANGED pending

\* ------------------------------------------------- get_or_create_student
CallGetOrCreateStudent(p, emails, names) ==
  \E email \in emails, name \in names :
    /\ Enter(p, [name |-> "get_or_create_student", email |-> email, sname |-> name])
    /\ UNCHANGED uivars

\* Mutant: the WHERE clause is missing, SELECT student_id FROM students.
SelectAnyStudent(email) == {s.student_id : s \in students}

\* SELECT student_id FROM students WHERE email = %s
SelectStudentByEmail(email) == {s.student_id : s \in {t \in students : t.email = email}}

\* cursor.execute(SELECT ...); result = cursor.fetchone(); if result:
GocSelect(p) ==
  /\ pc[p] = "goc_select"
  /\ LET found == SelectStudentByEmail(op[p].email) IN
       \/ /\ found = {}
          /\ fetched' = [fetched EXCEPT ![p] = 0]
          /\ pc' = [pc EXCEPT ![p] = "goc_insert"]
       \/ \E id \in found :
            /\ fetched' = [fetched EXCEPT ![p] = id]
            /\ pc' = [pc EXCEPT ![p] = "goc_update"]
  /\ Begin(p)
  /\ UNCHANGED <<dbvars, op, pending, outcome, result, histvars, uivars>>

\* Mutant: UPDATE students SET last_login = created_at WHERE student_id = %s
LastLoginFromCreatedAt(p) ==
  [kind |-> "update_last_login", student_id |-> fetched[p],
   ts |-> (CHOOSE s \in students : s.student_id = fetched[p]).created_at]

\* UPDATE students SET last_login = CURRENT_TIMESTAMP WHERE student_id = %s
LastLoginUpdate(p) ==
  [kind |-> "update_last_login", student_id |-> fetched[p], ts |-> conn[p].start]

\* The UPDATE waits while another open transaction holds the row; then
\* return result['student_id'].
GocUpdate(p) ==
  /\ pc[p] = "goc_update"
  /\ \A q \in Procs \ {p} :
       ~(pending[q].kind = "update_last_login" /\ pending[q].student_id = fetched[p])
  /\ pending' = [pending EXCEPT ![p] = LastLoginUpdate(p)]
  /\ result' = [result EXCEPT ![p] = [kind |-> "student", student_id |-> fetched[p]]]
  /\ fetched' = [fetched EXCEPT ![p] = 0]
  /\ pc' = [pc EXCEPT ![p] = "commit"]
  /\ UNCHANGED <<dbvars, now, op, conn, outcome, histvars, uivars>>

\* INSERT INTO students (email, name, created_at, last_login)
\* VALUES (%s, %s, CURRENT_TIMESTAMP, CURRENT_TIMESTAMP) RETURNING student_id
NewStudentRow(p, id) ==
  [student_id |-> id, email |-> op[p].email, name |-> op[p].sname,
   created_at |-> conn[p].start, last_login |-> conn[p].start]

\* The insert waits for an open transaction that inserted the same email,
\* checks the unique email, and returns the generated id.
GocInsert(p) ==
  /\ pc[p] = "goc_insert"
  /\ \A q \in Procs \ {p} : ~EmailInsertedBy(q, op[p].email)
  /\ IF EmailTaken(op[p].email)
     THEN Violation(p)
     ELSE /\ FreeStudentIds # {}
          /\ pending' = [pending EXCEPT ![p] = [kind |-> "insert_student",
                                                row |-> NewStudentRow(p, Min(FreeStudentIds))]]
          /\ result' = [result EXCEPT ![p] = [kind |-> "student",
                                              student_id |-> Min(FreeStudentIds)]]
          /\ fetched' = [fetched EXCEPT ![p] = 0]
          /\ pc' = [pc EXCEPT ![p] = "commit"]
          /\ UNCHANGED outcome
  /\ UNCHANGED <<dbvars, now, op, conn, histvars, uivars>>

\* ------------------------------------------------------- create_session
CallCreateSession(p, student_ids) ==
  \E student_id \in student_ids, kind \in ClientTypes :
    /\ Cardinality(sessions) + Upcoming("create_session", {"close"}) < MaxSessionId
    /\ Enter(p, [name |-> "create_session", student_id |-> student_id,
                 ai_client_type |-> kind])
    /\ UNCHANGED uivars

\* SELECT COUNT(*) as count FROM sessions WHERE student_id = %s
CountSessions(student_id) == Cardinality({s \in sessions : s.student_id = student_id})

\* session_id = str(uuid.uuid4()); the count; session_name = f"Session-{count + 1}"
CsCount(p) ==
  /\ pc[p] = "cs_count"
  /\ FreeSessionIds # {}
  /\ fetched' = [fetched EXCEPT ![p] = CountSessions(op[p].student_id)]
  /\ Begin(p)
  /\ result' = [result EXCEPT ![p] = [kind |-> "session", session_id |-> Min(FreeSessionIds),
                                      session_name |-> ""]]
  /\ pc' = [pc EXCEPT ![p] = "cs_insert"]
  /\ UNCHANGED <<dbvars, op, pending, outcome, histvars, uivars>>

\* The name create_session gives a session, from the count it read.
CreatedSessionName(count) == SessionName(count + 1)

\* INSERT INTO sessions (session_id, student_id, ai_client_type, created_at, status)
\* VALUES (%s, %s, %s, CURRENT_TIMESTAMP, 'active')
NewSessionRow(p) ==
  [session_id |-> result[p].session_id, student_id |-> op[p].student_id,
   ai_client_type |-> op[p].ai_client_type, created_at |-> conn[p].start,
   status |-> "active"]

\* The insert, then return session_id, session_name.
CsInsert(p) ==
  /\ pc[p] = "cs_insert"
  /\ IF StudentRowExists(op[p].student_id)
     THEN /\ pending' = [pending EXCEPT ![p] = [kind |-> "insert_session",
                                                row |-> NewSessionRow(p)]]
          /\ result' = [result EXCEPT ![p] =
                          [@ EXCEPT !.session_name = CreatedSessionName(fetched[p])]]
          /\ fetched' = [fetched EXCEPT ![p] = 0]
          /\ pc' = [pc EXCEPT ![p] = "commit"]
          /\ UNCHANGED outcome
     ELSE Violation(p)
  /\ UNCHANGED <<dbvars, now, op, conn, histvars, uivars>>

\* --------------------------------------------------------- save_message
CallSaveMessage(p, session_ids, senders, contents) ==
  \E session_id \in session_ids, sender \in senders, content \in contents :
    /\ Cardinality(messages) + Upcoming("save_message", {"close"}) < MaxMessageId
    /\ Enter(p, [name |-> "save_message", session_id |-> session_id,
                 sender_type |-> sender, content |-> content])
    /\ UNCHANGED uivars

\* Mutant: the "+ 1" is missing, SELECT COALESCE(MAX(sequence_number), 0).
NextSeqNoIncrement(session_id) ==
  LET seqs == {m.sequence_number : m \in {x \in messages : x.session_id = session_id}}
  IN IF seqs = {} THEN 0 ELSE Max(seqs)

\* Mutant: the WHERE clause is missing, the maximum is taken over all sessions.
NextSeqAllSessions(session_id) ==
  LET seqs == {m.sequence_number : m \in messages}
  IN (IF seqs = {} THEN 0 ELSE Max(seqs)) + 1

\* SELECT COALESCE(MAX(sequence_number), 0) + 1 as next_seq
\* FROM messages WHERE session_id = %s
NextSeq(session_id) ==
  LET seqs == {m.sequence_number : m \in {x \in messages : x.session_id = session_id}}
  IN (IF seqs = {} THEN 0 ELSE Max(seqs)) + 1

SmNextSeq(p) ==
  /\ pc[p] = "sm_nextseq"
  /\ fetched' = [fetched EXCEPT ![p] = NextSeq(op[p].session_id)]
  /\ Begin(p)
  /\ pc' = [pc EXCEPT ![p] = "sm_insert"]
  /\ UNCHANGED <<dbvars, op, pending, outcome, result, histvars, uivars>>

\* INSERT INTO messages (session_id, sender_type, content, sequence_number, created_at)
\* VALUES (%s, %s, %s, %s, CURRENT_TIMESTAMP)
NewMessageRow(p) ==
  [message_id |-> Min(FreeMessageIds), session_id |-> op[p].session_id,
   sender_type |-> op[p].sender_type, content |-> StoredText(op[p].content),
   sequence_number |-> fetched[p], created_at |-> conn[p].start]

\* The text cannot be sent: the execute raises before anything reaches the server.
Unadaptable(p) ==
  /\ outcome' = [outcome EXCEPT ![p] = "ValueError"]
  /\ result' = [result EXCEPT ![p] = NoResult]
  /\ fetched' = [fetched EXCEPT ![p] = 0]
  /\ pc' = [pc EXCEPT ![p] = "rollback"]
  /\ UNCHANGED pending

\* The insert sends the text and checks the session reference.
SmInsert(p) ==
  /\ pc[p] = "sm_insert"
  /\ FreeMessageIds # {}
  /\ IF ~Adaptable(op[p].content)
     THEN Unadaptable(p)
     ELSE IF SessionRowExists(op[p].session_id)
     THEN /\ pending' = [pending EXCEPT ![p] = [kind |-> "insert_message",
                                                row |-> NewMessageRow(p)]]
          /\ fetched' = [fetched EXCEPT ![p] = 0]
          /\ pc' = [pc EXCEPT ![p] = "commit"]
          /\ UNCHANGED <<outcome, result>>
     ELSE Violation(p)
  /\ UNCHANGED <<dbvars, now, op, conn, histvars, uivars>>


\* ------------------------------------------------------ read operations
CallSessionExists(p) ==
  \E session_id \in SessionIds :
    /\ Enter(p, [name |-> "session_exists", session_id |-> session_id])
    /\ UNCHANGED uivars

CallGetConversationHistory(p) ==
  \E session_id \in SessionIds :
    /\ Enter(p, [name |-> "get_conversation_history", session_id |-> session_id])
    /\ UNCHANGED uivars

CallGetUserSessions(p) ==
  \E email \in Emails :
    /\ Enter(p, [name |-> "get_user_sessions", email |-> email])
    /\ UNCHANGED uivars

CallGetSessionName(p) ==
  \E session_id \in SessionIds, email \in Emails :
    /\ Enter(p, [name |-> "get_session_name", session_id |-> session_id, email |-> email])
    /\ UNCHANGED uivars

\* Mutant: the read also stamps the first student's last_login.
ReturnsAndStamps(p, name, value) ==
  /\ pc[p] = "query"
  /\ op[p].name = name
  /\ Begin(p)
  /\ result' = [result EXCEPT ![p] = value]
  /\ pending' = [pending EXCEPT ![p] = [kind |-> "update_last_login", student_id |-> 1,
                                        ts |-> now]]
  /\ pc' = [pc EXCEPT ![p] = "commit"]
  /\ UNCHANGED <<dbvars, op, fetched, outcome, histvars, uivars>>

\* The body of a read: its one statement, then the return value.
Returns(p, name, value) ==
  /\ pc[p] = "query"
  /\ op[p].name = name
  /\ Begin(p)
  /\ result' = [result EXCEPT ![p] = value]
  /\ pc' = [pc EXCEPT ![p] = "commit"]
  /\ UNCHANGED <<dbvars, op, fetched, pending, outcome, histvars, uivars>>

\* All the ways ORDER BY can lay out the rows of S: every row once, keys
\* ascending (asc) or descending, rows with equal keys in any order.
Ordered(S, Key(_), asc) ==
  {f \in [1..Cardinality(S) -> S] :
     /\ \A i, j \in 1..Cardinality(S) : i # j => f[i] # f[j]
     /\ \A i, j \in 1..Cardinality(S) :
          i < j => IF asc THEN Key(f[i]) <= Key(f[j]) ELSE Key(f[i]) >= Key(f[j])}

\* Mutant: the check answers from the cursor, which is never None.
SessionExistsAlways(session_id) == TRUE

\* SELECT 1 FROM sessions WHERE session_id = %s; fetchone() is not None
SessionExistsQuery(session_id) == \E s \in sessions : s.session_id = session_id

SessionExists(p) ==
  /\ op[p].name = "session_exists"
  /\ Returns(p, "session_exists",
             [kind |-> "bool", value |-> SessionExistsQuery(op[p].session_id)])

\* SELECT sender_type, content, created_at FROM messages WHERE session_id = %s
\* ORDER BY sequence_number ASC
HistoryRows(session_id) ==
  LET Key(m) == m.sequence_number
  IN Ordered({m \in messages : m.session_id = session_id}, Key, TRUE)

\* The list of dicts built from the fetched rows.
HistoryEntries(rows) ==
  [i \in 1..Len(rows) |-> [role |-> rows[i].sender_type,
                           content |-> FetchedText(rows[i].content),
                           timestamp |-> Strftime(rows[i].created_at)]]

GetConversationHistory(p) ==
  /\ op[p].name = "get_conversation_history"
  /\ \E rows \in HistoryRows(op[p].session_id) :
       Returns(p, "get_conversation_history",
               [kind |-> "history", rows |-> HistoryEntries(rows)])

\* Mutant: the join drops WHERE st.email = %s, every session matches.
SessionsOfAnyEmail(email) == sessions

\* sessions s JOIN students st ON s.student_id = st.student_id WHERE st.email = %s
SessionsOfEmail(email) ==
  {s \in sessions : \E st \in students : st.student_id = s.student_id /\ st.email = email}

\* LEFT JOIN messages m ... GROUP BY s.session_id, ...: COUNT(m.message_id)
MessageCount(session_id) == Cardinality({m \in messages : m.session_id = session_id})

\* Mutant: JOIN messages in place of LEFT JOIN, a session without messages
\* has no row.
UserSessionRowsInnerJoin(email) ==
  LET Key(r) == r.created_at
  IN Ordered({[session_id |-> s.session_id, ai_client_type |-> s.ai_client_type,
               created_at |-> s.created_at,
               message_count |-> MessageCount(s.session_id)]
                : s \in {t \in SessionsOfEmail(email) : MessageCount(t.session_id) > 0}},
             Key, FALSE)

\* The grouped rows of get_user_sessions, ORDER BY s.created_at DESC.
UserSessionRows(email) ==
  LET Key(r) == r.created_at
  IN Ordered({[session_id |-> s.session_id, ai_client_type |-> s.ai_client_type,
               created_at |-> s.created_at,
               message_count |-> MessageCount(s.session_id)]
                : s \in SessionsOfEmail(email)}, Key, FALSE)

\* Mutant: the listing numbers its rows from the top, f"Session-{idx + 1}".
ListedSessionNameFromTop(total, idx) == SessionName(idx + 1)

\* f"Session-{len(sessions) - idx}" for the row at index idx (from 0).
ListedSessionName(total, idx) == SessionName(total - idx)

\* for idx, session in enumerate(sessions): session_list.append({...}).  The
\* session token is its own canonical string, so str() leaves it as it is.
SessionList(rows) ==
  [i \in 1..Len(rows) |-> [session_id |-> rows[i].session_id,
                           session_name |-> ListedSessionName(Len(rows), i - 1),
                           created_at |-> Strftime(rows[i].created_at),
                           message_count |-> rows[i].message_count]]

GetUserSessions(p) ==
  /\ op[p].name = "get_user_sessions"
  /\ \E rows \in UserSessionRows(op[p].email) :
       Returns(p, "get_user_sessions", [kind |-> "sessions", rows |-> SessionList(rows)])

\* (SELECT COUNT(*) FROM sessions s2 JOIN students st2 ...
\*  WHERE st2.email = %s AND s2.created_at >= s.created_at) as session_number
SessionNumber(s, email) ==
  Cardinality({s2 \in SessionsOfEmail(email) : s2.created_at >= s.created_at})

\* FROM sessions s JOIN students st ... WHERE s.session_id = %s AND st.email = %s;
\* return f"Session-{result['session_number']}" if result else None
SessionNameQuery(session_id, email) ==
  LET hit == {s \in SessionsOfEmail(email) : s.session_id = session_id}
  IN IF hit = {}
     THEN [kind |-> "name", found |-> FALSE, session_name |-> ""]
     ELSE [kind |-> "name", found |-> TRUE,
           session_name |-> SessionName(SessionNumber(CHOOSE s \in hit : TRUE, email))]

GetSessionName(p) ==
  /\ op[p].name = "get_session_name"
  /\ Returns(p, "get_session_name", SessionNameQuery(op[p].session_id, op[p].email))

\* ================================================================ frontend
\* The handlers of the Gradio frontend.  They keep the user and the session in
\* three module globals and reach the core only through the HTTP backend,
\* served here by caller p.  One handler runs at a time.  A helper that calls
\* the backend returns what the backend replied or, at any moment (a timeout,
\* a refused connection, a status other than 200), an error.

\* `not x` for a text that may be None.
Falsy(x) == x = None \/ x = ""

\* A handler has returned: which one, what the globals were when it was
\* called, and the error it reported ("" when it reported none).
Handled(name, before, error) ==
  [name |-> name, stage |-> "returned", before |-> before, error |-> error]

\* A handler waits for the reply to the request it made through `helper`.
Awaiting(name, helper, before) ==
  [name |-> name, stage |-> helper, before |-> before, error |-> ""]

\* The last call of caller p served this backend request.
ServedFor(p, request) == "request" \in DOMAIN op[p] /\ op[p].request = request

\* The backend can take a request: its previous call on the core has ended.
BackendFree(p) == pc[p] \in {"idle", "done"}

\* ------------------------------------------------------ POST /sessions/new
\* The backend serves POST /sessions/new: it looks the student up first.
BackendLogin(user_id, name) ==
  [name |-> "get_or_create_student", email |-> user_id, sname |-> name,
   request |-> "sessions_new"]

\* Then, with the student's id, it opens the session.
BackendCreatesSession(p) ==
  /\ pc[p] = "done"
  /\ ServedFor(p, "sessions_new")
  /\ op[p].name = "get_or_create_student"
  /\ outcome[p] = "ok"
  /\ Cardinality(sessions) + Upcoming("create_session", {"close"}) < MaxSessionId
  /\ Enter(p, [name |-> "create_session", student_id |-> result[p].student_id,
               ai_client_type |-> "Pritam", request |-> "sessions_new"])
  /\ UNCHANGED uivars

\* create_new_session returns (session_id, session_name, None) on status 200,
\* (None, None, error) otherwise.
CreateNewSessionReplies(p) ==
  {[session_id |-> NoSessionId, session_name |-> None, error |-> "Error"]}
    \cup IF /\ pc[p] = "done"
            /\ ServedFor(p, "sessions_new")
            /\ op[p].name = "create_session"
            /\ outcome[p] = "ok"
         THEN {[session_id |-> result[p].session_id,
                session_name |-> result[p].session_name, error |-> ""]}
         ELSE {}

\* ------------------------------------------- start_session (the login form)
\* start_session returns early with a message: nothing is sent to the backend,
\* the login screen is shown and the chat screen hidden.
Refused(p, email, name, message) ==
  /\ op' = [op EXCEPT ![p] = [name |-> "start_session", email |-> email, sname |-> name]]
  /\ conn' = [conn EXCEPT ![p] = NoConn]
  /\ fetched' = [fetched EXCEPT ![p] = 0]
  /\ pending' = [pending EXCEPT ![p] = NoWrite]
  /\ outcome' = [outcome EXCEPT ![p] = "none"]
  /\ result' = [result EXCEPT ![p] = [kind |-> "login_message", message |-> message]]
  /\ pc' = [pc EXCEPT ![p] = "idle"]
  /\ login_screen' = TRUE
  /\ chat_screen' = FALSE
  /\ event' = Handled("start_session", globals, message)
  /\ UNCHANGED <<dbvars, now, histvars, globals, chatbot>>

\* if not email or email.strip() == "": ...; if not name or name.strip() == "":
\* ...; if "@" not in email or "." not in email: ...; the health check;
\* current_user_id = email.strip().lower(); create_new_session(..., name.strip())
StartSession(p, email, name) ==
  /\ event.stage = "returned"
  /\ BackendFree(p)
  /\ IF email = "" \/ Strip(email) = ""
     THEN Refused(p, email, name, "Please enter your email")
     ELSE IF name = "" \/ Strip(name) = ""
     THEN Refused(p, email, name, "Please enter your name")
     ELSE IF ~Contains(email, "@") \/ ~Contains(email, ".")
     THEN Refused(p, email, name, "Please enter a valid email address")
     ELSE \/ Refused(p, email, name, "Backend server is not running")
          \/ /\ current_user_id' = Lower(Strip(email))
             /\ Enter(p, BackendLogin(Lower(Strip(email)), Strip(name)))
             /\ event' = Awaiting("start_session", "create_new_session", globals)
             /\ UNCHANGED <<current_session_id, current_session_name, login_screen,
                            chat_screen, chatbot>>

\* if error: return (login shown, chat hidden, message); else the two session
\* globals are set, the login screen is hidden and the chat screen shown.
StartSessionReturns(p) ==
  /\ event.name = "start_session"
  /\ event.stage = "create_new_session"
  /\ \E reply \in CreateNewSessionReplies(p) :
       IF reply.error # ""
       THEN /\ login_screen' = TRUE
            /\ chat_screen' = FALSE
            /\ event' = Handled("start_session", event.before, reply.error)
            /\ UNCHANGED <<globals, chatbot>>
       ELSE /\ current_session_id' = reply.session_id
            /\ current_session_name' = reply.session_name
            /\ login_screen' = FALSE
            /\ chat_screen' = TRUE
            /\ event' = Handled("start_session", event.before, "")
            /\ UNCHANGED <<current_user_id, chatbot>>
  /\ UNCHANGED <<dbvars, now, procvars, histvars>>

\* ----------------------------------------------------------- handle_new_chat
\* if not current_user_id: return [], "Error: No user logged in", ...;
\* create_new_session(current_user_id, "")
HandleNewChat(p) ==
  /\ event.stage = "returned"
  /\ BackendFree(p)
  /\ IF Falsy(current_user_id)
     THEN /\ chatbot' = <<>>
          /\ event' = Handled("handle_new_chat", globals, "Error: No user logged in")
          /\ UNCHANGED <<dbvars, now, procvars, histvars, globals, login_screen, chat_screen>>
     ELSE /\ Enter(p, BackendLogin(current_user_id, ""))
          /\ event' = Awaiting("handle_new_chat", "create_new_session", globals)
          /\ UNCHANGED <<globals, login_screen, chat_screen, chatbot>>

\* if error: return [], message, ...; else the two session globals are set
\* and the chat is cleared (the session list goes to the dropdown only).
HandleNewChatReturns(p) ==
  /\ event.name = "handle_new_chat"
  /\ event.stage = "create_new_session"
  /\ \E reply \in CreateNewSessionReplies(p) :
       IF reply.error # ""
       THEN /\ event' = Handled("handle_new_chat", event.before, reply.error)
            /\ UNCHANGED globals
       ELSE /\ current_session_id' = reply.session_id
            /\ current_session_name' = reply.session_name
            /\ event' = Handled("handle_new_chat", event.before, "")
            /\ UNCHANGED current_user_id
  /\ chatbot' = <<>>
  /\ UNCHANGED <<dbvars, now, procvars, histvars, login_screen, chat_screen>>

\* --------------------------------------------------------- load_past_session
\* get_user_sessions (the helper): the backend's list for GET
\* /users/{user_id}/sessions, which it takes from the core, or ([], error).
GetUserSessionsReplies(user_id) ==
  {[sessions |-> <<>>, error |-> "Error"]}
    \cup {[sessions |-> SessionList(rows), error |-> ""] : rows \in UserSessionRows(user_id)}

\* The name the backend gives with a conversation: the core's get_session_name.
BackendSessionName(session_id, user_id) ==
  LET answer == SessionNameQuery(session_id, user_id)
  IN IF answer.found THEN answer.session_name ELSE None

\* get_conversation: (messages, session_name, None) as the backend takes them
\* from the core for GET /conversations/{session_id}, or ([], None, error).
GetConversationReplies(user_id, session_id) ==
  {[messages |-> <<>>, session_name |-> None, error |-> "Error"]}
    \cup {[messages |-> HistoryEntries(rows),
           session_name |-> BackendSessionName(session_id, user_id), error |-> ""]
            : rows \in HistoryRows(session_id)}

\* for s in sessions: if s["session_name"] == session_name: session_id =
\* s["session_id"]; break.  None when no entry has the name.
FindSessionId(listing, session_name) ==
  LET hits == {i \in 1..Len(listing) : listing[i].session_name = session_name}
  IN IF hits = {} THEN NoSessionId ELSE listing[Min(hits)].session_id

\* for msg in messages: if msg["role"] == "student": append role "user" else
\* append role "assistant"; the content is kept.
ChatHistory(chat_messages) ==
  [i \in 1..Len(chat_messages) |->
     [role |-> IF chat_messages[i].role = "student" THEN "user" ELSE "assistant",
      content |-> chat_messages[i].content]]

\* load_past_session returns [] and a message.
LoadFails(message) ==
  /\ chatbot' = <<>>
  /\ event' = Handled("load_past_session", globals, message)
  /\ UNCHANGED globals

\* The whole handler: the session list, the search by name, the conversation,
\* the two session globals, the conversion to the chat format.
LoadPastSession(session_name) ==
  /\ event.stage = "returned"
  /\ IF session_name = "" \/ Falsy(current_user_id)
     THEN LoadFails("Please select a session")
     ELSE \E listing \in GetUserSessionsReplies(current_user_id) :
            IF listing.error # ""
            THEN LoadFails("Error loading sessions")
            ELSE LET session_id == FindSessionId(listing.sessions, session_name)
                 IN IF session_id = NoSessionId
                    THEN LoadFails("Session not found")
                    ELSE \E conversation \in GetConversationReplies(current_user_id, session_id) :
                           IF conversation.error # ""
                           THEN LoadFails("Error loading conversation")
                           ELSE /\ current_session_id' = session_id
                                /\ current_session_name' = conversation.session_name
                                /\ chatbot' = ChatHistory(conversation.messages)
                                /\ event' = [name |-> "load_past_session",
                                             stage |-> "returned", before |-> globals,
                                             error |-> "",
                                             messages |-> conversation.messages]
                                /\ UNCHANGED current_user_id
  /\ UNCHANGED <<dbvars, now, procvars, histvars, login_screen, chat_screen>>

\* ---------------------------------------------------------- chat_with_pritam
\* What the handler itself writes into the chat.
NoActiveSession == <<69, 114, 114, 111, 114>>
ErrorText == <<9888>>

\* One entry of the chat on display.
Said(role, content) == [role |-> role, content |-> content]

\* The backend serves POST /chat: it stores the user's message first.
BackendStoresMessage(session_id, message) ==
  [name |-> "save_message", session_id |-> session_id, sender_type |-> "user",
   content |-> message, request |-> "chat"]

\* Then it stores the answer of the AI client.
BackendStoresAnswer(p) ==
  /\ pc[p] = "done"
  /\ ServedFor(p, "chat")
  /\ op[p].sender_type = "user"
  /\ outcome[p] = "ok"
  /\ Cardinality(messages) + Upcoming("save_message", {"close"}) < MaxMessageId
  /\ Enter(p, [name |-> "save_message", session_id |-> op[p].session_id,
               sender_type |-> "assistant", content |-> Ok, request |-> "chat"])
  /\ UNCHANGED uivars

\* send_message_to_api returns (ai_response, None) on status 200, (None, error)
\* otherwise.
SendMessageReplies(p) ==
  {[ai_response |-> <<>>, error |-> "Error"]}
    \cup IF /\ pc[p] = "done"
            /\ ServedFor(p, "chat")
            /\ op[p].sender_type = "assistant"
            /\ outcome[p] = "ok"
         THEN {[ai_response |-> op[p].content, error |-> ""]}
         ELSE {}

\* if not current_user_id or not current_session_id: the message and "Error: No
\* active session" are appended; else the message is appended, shown, and sent.
ChatWithPritam(p, message) ==
  /\ event.stage = "returned"
  /\ BackendFree(p)
  /\ Len(chatbot) + 2 <= MaxChat
  /\ IF Falsy(current_user_id) \/ current_session_id = NoSessionId
     THEN /\ chatbot' = chatbot \o <<Said("user", message), Said("assistant", NoActiveSession)>>
          /\ event' = Handled("chat_with_pritam", globals, "Error: No active session")
          /\ UNCHANGED <<dbvars, now, procvars, histvars>>
     ELSE /\ Cardinality(messages) + 1 < MaxMessageId
          /\ chatbot' = Append(chatbot, Said("user", message))
          /\ Enter(p, BackendStoresMessage(current_session_id, message))
          /\ event' = Awaiting("chat_with_pritam", "send_message_to_api", globals)
  /\ UNCHANGED <<globals, login_screen, chat_screen>>

\* if error: the error is appended as the assistant's entry; else the answer.
ChatWithPritamReturns(p) ==
  /\ event.name = "chat_with_pritam"
  /\ event.stage = "send_message_to_api"
  /\ \E reply \in SendMessageReplies(p) :
       IF reply.error # ""
       THEN /\ chatbot' = Append(chatbot, Said("assistant", ErrorText))
            /\ event' = Handled("chat_with_pritam", event.before, reply.error)
       ELSE /\ chatbot' = Append(chatbot, Said("assistant", reply.ai_response))
            /\ event' = Handled("chat_with_pritam", event.before, "")
  /\ UNCHANGED <<dbvars, now, procvars, histvars, globals, login_screen, chat_screen>>

\* ---------------------------------------------------------- the system
\* The steps of the connection scope, common to every operation.
ScopeStep(p) ==
  \/ ExecFail(p)
  \/ Commit(p)
  \/ CommitFail(p)
  \/ Rollback(p)
  \/ RollbackFail(p)
  \/ Close(p)

\* get_or_create_student, statement by statement.
StudentStep(p, emails, names) ==
  \/ CallGetOrCreateStudent(p, emails, names)
  \/ GocSelect(p)
  \/ GocUpdate(p)
  \/ GocInsert(p)

\* create_session, statement by statement.
SessionStep(p, student_ids) ==
  \/ CallCreateSession(p, student_ids)
  \/ CsCount(p)
  \/ CsInsert(p)

\* save_message, statement by statement.
MessageStep(p, session_ids, senders, contents) ==
  \/ CallSaveMessage(p, session_ids, senders, contents)
  \/ SmNextSeq(p)
  \/ SmInsert(p)

\* get_conversation_history, statement by statement.
HistoryStep(p) ==
  \/ CallGetConversationHistory(p)
  \/ GetConversationHistory(p)

\* get_user_sessions, statement by statement.
ListingStep(p) ==
  \/ CallGetUserSessions(p)
  \/ GetUserSessions(p)

\* The operations that only read.
ReadStep(p) ==
  \/ CallSessionExists(p)
  \/ CallGetConversationHistory(p)
  \/ CallGetUserSessions(p)
  \/ CallGetSessionName(p)
  \/ SessionExists(p)
  \/ GetConversationHistory(p)
  \/ GetUserSessions(p)
  \/ GetSessionName(p)

\* What is picked in the session dropdown.
PickedNames == {SessionName(n) : n \in 1..2} \cup {""}

\* The four handlers, each with the steps of the backend behind it.
FrontendStep(p) ==
  \/ \E email \in TypedEmails, name \in TypedNames : StartSession(p, email, name)
  \/ StartSessionReturns(p)
  \/ HandleNewChat(p)
  \/ HandleNewChatReturns(p)
  \/ \E session_name \in PickedNames : LoadPastSession(session_name)
  \/ ChatWithPritam(p, Hi)
  \/ ChatWithPritamReturns(p)

\* The backend's calls on the core, statement by statement.
BackendStep(p) ==
  \/ ScopeStep(p)
  \/ GocSelect(p)
  \/ GocUpdate(p)
  \/ GocInsert(p)
  \/ BackendCreatesSession(p)
  \/ CsCount(p)
  \/ CsInsert(p)
  \/ BackendStoresAnswer(p)
  \/ SmNextSeq(p)
  \/ SmInsert(p)

\* Every operation of the core, with every input.
Step(p) ==
  \/ ScopeStep(p)
  \/ StudentStep(p, Emails, Names)
  \/ SessionStep(p, StudentIds)
  \/ MessageStep(p, SessionIds, SenderTypes, Contents)
  \/ ReadStep(p)

\* Callers run concurrently, interleaving statement by statement.
Next == \E p \in Procs : Step(p)

Spec == Init /\ [][Next]_vars

\* Calls never overlap: one caller makes its calls one after another, with
\* every input; the text of a message is one.
NextSequential ==
  \/ ScopeStep("p1")
  \/ StudentStep("p1", Emails, Names)
  \/ SessionStep("p1", StudentIds)
  \/ MessageStep("p1", SessionIds, SenderTypes, {Hi})
  \/ ReadStep("p1")

SpecSequential == Init /\ [][NextSequential]_vars

\* Two callers log in concurrently.  What varies is how their statements
\* interleave, so both give the same name.
NextLogins == \E p \in Procs : ScopeStep(p) \/ StudentStep(p, Emails, {"Asha"})

SpecLogins == Init /\ [][NextLogins]_vars

\* One caller logs in as the first student, opens sessions for that student
\* and appends messages while a second caller appends messages; both send the
\* same message, to one of the first two sessions.  Every write is tried
\* before and after the row it refers to exists.
NextAppends ==
  \/ \E p \in Procs : ScopeStep(p) \/ MessageStep(p, {1, 2}, {"user"}, {Hi})
  \/ StudentStep("p1", {"a@x.io"}, {"Asha"})
  \/ SessionStep("p1", {1})

SpecAppends == Init /\ [][NextAppends]_vars

\* One caller logs in as the first student, opens sessions and reads
\* histories, while it and a second caller append messages of either sender
\* to the first session.
NextHistory ==
  \/ \E p \in Procs : ScopeStep(p) \/ MessageStep(p, {1}, SenderTypes, {Hi})
  \/ StudentStep("p1", {"a@x.io"}, {"Asha"})
  \/ SessionStep("p1", {1})
  \/ HistoryStep("p1")

SpecHistory == Init /\ [][NextHistory]_vars

\* One caller logs in, through the login form with whatever was typed, or by
\* calling get_or_create_student with an email that may be blank.
NextMalformed ==
  \/ ScopeStep("p1")
  \/ StudentStep("p1", BlankEmails \cup {"a@x.io"}, {"Asha"})
  \/ \E email \in TypedEmails, name \in TypedNames : StartSession("p1", email, name)
  \/ BackendCreatesSession("p1")
  \/ CsCount("p1")
  \/ CsInsert("p1")
  \/ StartSessionReturns("p1")

SpecMalformed == Init /\ [][NextMalformed]_vars

\* The database after get_or_create_student("a@x.io", "Asha") and two
\* create_session(1, "Pritam") calls, one after another, with nobody calling.
\* The clock's origin is arbitrary: the three rows carry earlier times.
InitTwoSessions ==
  /\ students = {[student_id |-> 1, email |-> "a@x.io", name |-> "Asha",
                  created_at |-> -3, last_login |-> -3]}
  /\ sessions = {[session_id |-> i, student_id |-> 1, ai_client_type |-> "Pritam",
                  created_at |-> i - 3, status |-> "active"] : i \in {1, 2}}
  /\ messages = {}
  /\ now = 0
  /\ pc = [p \in Procs |-> "idle"]
  /\ op = [p \in Procs |-> NoOp]
  /\ conn = [p \in Procs |-> NoConn]
  /\ fetched = [p \in Procs |-> 0]
  /\ pending = [p \in Procs |-> NoWrite]
  /\ outcome = [p \in Procs |-> "none"]
  /\ result = [p \in Procs |-> NoResult]
  /\ createLog = [i \in {1, 2} |-> [session_id |-> i, session_name |-> SessionName(i),
                                    student_id |-> 1]]
  /\ appendLog = <<>>
  /\ issuedIds = [e \in Emails \cup BlankEmails |-> IF e = "a@x.io" THEN {1} ELSE {}]
  /\ InitFrontend

\* Two sessions, each with a caller of its own that appends to it; the two
\* callers interleave statement by statement.
NextSessions ==
  \/ \E p \in Procs : ScopeStep(p)
  \/ MessageStep("p1", {1}, SenderTypes, {Hi})
  \/ MessageStep("p2", {2}, SenderTypes, {Hi})

SpecSessions == InitTwoSessions /\ [][NextSessions]_vars

\* With two sessions there, one caller appends texts of every kind to the
\* first session and reads its history, one call after another.
NextRoundTrip ==
  \/ ScopeStep("p1")
  \/ MessageStep("p1", {1}, {"user"}, RichContents)
  \/ HistoryStep("p1")

SpecRoundTrip == InitTwoSessions /\ [][NextRoundTrip]_vars

\* One caller logs in as the first student and lists sessions, while it and a
\* second caller open sessions for that student.
NextCreates ==
  \/ \E p \in Procs : ScopeStep(p) \/ SessionStep(p, {1})
  \/ StudentStep("p1", {"a@x.io"}, {"Asha"})
  \/ ListingStep("p1")

SpecCreates == Init /\ [][NextCreates]_vars

\* One user at the frontend, one backend behind it: the handlers are called in
\* any order, with whatever was typed.
NextFrontend == FrontendStep("p1") \/ BackendStep("p1")

SpecFrontend == Init /\ [][NextFrontend]_vars

\* ============================================================== claims
\* A caller whose last call was operation `name` and returned normally.
Returned(p, name) == pc[p] = "done" /\ op[p].name = name /\ outcome[p] = "ok"

\* What create_session returned for the sessions of one student, in order.
CreatedBy(student_id) ==
  LET Mine(e) == e.student_id = student_id IN SelectSeq(createLog, Mine)

\* What create_session returned for the sessions of the student with this email.
CreatedFor(email) ==
  LET ids == {s.student_id : s \in {t \in students : t.email = email}}
  IN IF ids = {} THEN <<>> ELSE CreatedBy(CHOOSE id \in ids : TRUE)

\* The calls of save_message on one session that returned, in order.
AppendedTo(session_id) ==
  LET Mine(e) == e.session_id = session_id IN SelectSeq(appendLog, Mine)

\* C1: when calls do not overlap, create_session names a student's sessions
\* Session-1, Session-2, Session-3 in the order it creates them, and
\* get_user_sessions lists them newest first, each session id under the name
\* create_session returned for it.
C1_CreationAndListingAgree ==
  /\ \A id \in StudentIds :
       \A i \in 1..Len(CreatedBy(id)) : CreatedBy(id)[i].session_name = SessionName(i)
  /\ \A p \in Procs :
       Returned(p, "get_user_sessions") =>
         LET made == CreatedFor(op[p].email)
             rows == result[p].rows
         IN /\ Len(rows) = Len(made)
            /\ \A i \in 1..Len(rows) :
                 /\ rows[i].session_id = made[Len(made) + 1 - i].session_id
                 /\ rows[i].session_name = made[Len(made) + 1 - i].session_name

\* A student made three sessions and get_user_sessions has listed them.
C1_Witness ==
  \E p \in Procs :
    /\ Returned(p, "get_user_sessions")
    /\ Len(result[p].rows) = 3
    /\ result[p].rows[1].session_name = "Session-3"
    /\ result[p].rows[3].session_name = "Session-1"

\* C2: when calls do not overlap, get_session_name(s, email) returns for every
\* session s of the student the name create_session returned for s.
C2_SessionNameAsCreated ==
  \A p \in Procs :
    Returned(p, "get_session_name") /\ result[p].found =>
      \A i \in 1..Len(createLog) :
        createLog[i].session_id = op[p].session_id =>
          result[p].session_name = createLog[i].session_name

\* C3: no two messages of one session carry the same sequence_number, however
\* the statements of two save_message calls interleave.
C3_SequenceNumbersDistinct ==
  \A m1, m2 \in messages :
    m1.session_id = m2.session_id /\ m1.sequence_number = m2.sequence_number => m1 = m2

\* No call is under way.
Quiet == \A p \in Procs : ~InFlight(p)

\* C4: when calls do not overlap, then after every call the messages of a
\* session carry the sequence numbers 1..N, one each, and number i is on the
\* i-th message that was appended to the session.
C4_SequenceNumbersContiguous ==
  Quiet =>
  \A sid \in SessionIds :
    LET said == AppendedTo(sid)
        rows == {m \in messages : m.session_id = sid}
    IN /\ Cardinality(rows) = Len(said)
       /\ \A i \in 1..Len(said) :
            \E m \in rows :
              /\ m.sequence_number = i
              /\ m.sender_type = said[i].sender_type
              /\ m.content = said[i].content
              /\ \A n \in rows : n.sequence_number = i => n = m

\* Two messages, one of each sender, were appended to one session.
C4_Witness ==
  \E sid \in SessionIds :
    /\ Len(AppendedTo(sid)) = 2
    /\ AppendedTo(sid)[1].sender_type # AppendedTo(sid)[2].sender_type
    /\ Quiet

\* C5: students never holds two rows with the same email, however the
\* statements of get_or_create_student calls interleave.
C5_EmailUnique ==
  \A s1, s2 \in students : s1.email = s2.email => s1 = s2

\* Two first contacts with one email overlapped: both found no row, one
\* created the row and the other's insert was turned down.
C5_Witness ==
  \E p, q \in Procs :
    /\ p # q
    /\ Returned(p, "get_or_create_student")
    /\ op[q] = op[p]
    /\ pc[q] = "rollback"
    /\ outcome[q] = "IntegrityError"
    /\ \E s \in students : s.email = op[p].email /\ s.last_login = s.created_at

\* C6: a get_or_create_student call whose insert meets the unique email does
\* not fail: no call ends by raising the violation.
C6_ViolationNotRaised ==
  \A p \in Procs :
    pc[p] = "done" /\ op[p].name = "get_or_create_student" => outcome[p] # "IntegrityError"

C8_FailedWritesLeaveNothing ==
  [][/\ dbvars' # dbvars =>
          \E p \in Procs : pc[p] = "commit" /\ pc'[p] = "close" /\ outcome'[p] = "ok"
     /\ \A p \in Procs : outcome[p] = "ok" /\ InFlight(p) => outcome'[p] = "ok"]_vars

\* A save_message call failed at its commit, after its insert: no message.
C8_Witness ==
  \E p \in Procs :
    /\ pc[p] = "done"
    /\ op[p].name = "save_message"
    /\ conn[p].body = "returned"
    /\ outcome[p] = "OperationalError"
    /\ SessionRowExists(op[p].session_id)
    /\ messages = {}

\* C9: when calls do not overlap, every call of get_or_create_student with one
\* email returns the same id, the id of the one row with that email.
C9_SameStudentId ==
  \A e \in Emails :
    /\ Cardinality(issuedIds[e]) <= 1
    /\ Cardinality({s \in students : s.email = e}) <= 1
    /\ \A id \in issuedIds[e] : \E s \in students : s.email = e /\ s.student_id = id

\* A second call with the email of an existing student has returned its id.
C9_Witness ==
  \E p \in Procs :
    /\ Returned(p, "get_or_create_student")
    /\ \E s \in students :
         /\ s.email = op[p].email
         /\ s.student_id = result[p].student_id
         /\ s.name # op[p].sname

\* C10: when calls do not overlap, a call of get_or_create_student for an
\* existing student leaves last_login strictly later than it was.
C10_LastLoginIncreases ==
  [][\A p \in Procs :
       pc[p] = "commit" /\ pc'[p] = "close" /\ pending[p].kind = "update_last_login" =>
         \A s \in students :
           s.student_id = pending[p].student_id =>
             \E t \in students' : t.student_id = s.student_id /\ t.last_login > s.last_login]_vars

\* A student has logged in again after the first contact.
C10_Witness ==
  \E s \in students : s.last_login > s.created_at /\ Quiet

\* Caller p is in, or has just ended, a get_or_create_student call that found
\* the student: it has not gone to the insert.
FoundPath(p) ==
  /\ op[p].name = "get_or_create_student"
  /\ pc[p] \in {"goc_update", "commit", "rollback", "close"}
  /\ pending[p].kind # "insert_student"
  /\ \E s \in students : s.email = op[p].email

\* C11: no step of a get_or_create_student call that found the student changes
\* anything but that student's last_login: its name (whatever name was
\* passed), id, email and created_at stay, every other student stays, and so
\* do sessions and messages.
C11_OnlyLastLoginChanges ==
  [][\A p \in Procs :
       FoundPath(p) /\ pc'[p] # pc[p] =>
         /\ sessions' = sessions
         /\ messages' = messages
         /\ Cardinality(students') = Cardinality(students)
         /\ \A s \in students :
              IF s.email = op[p].email
              THEN \E t \in students' : t = [s EXCEPT !.last_login = t.last_login]
              ELSE s \in students']_vars

\* A call that passed another name found the student and has returned, with
\* last_login moved, the stored name kept, and another student in the table.
C11_Witness ==
  \E p \in Procs :
    /\ Returned(p, "get_or_create_student")
    /\ Cardinality(students) = 2
    /\ \E s \in students :
         /\ s.email = op[p].email
         /\ s.name # op[p].sname
         /\ s.last_login > s.created_at

\* C12: a get_conversation_history call that runs while no other call is
\* under way returns, for a session with N appended messages, exactly N
\* entries, the i-th carrying the sender (as role) and the content of the
\* i-th appended message.
C12_HistoryInAppendOrder ==
  [][\A p \in Procs :
       /\ pc[p] = "query"
       /\ pc'[p] = "commit"
       /\ op[p].name = "get_conversation_history"
       /\ \A q \in Procs \ {p} : ~InFlight(q)
       => LET said == AppendedTo(op[p].session_id)
              rows == result'[p].rows
          IN /\ Len(rows) = Len(said)
             /\ \A i \in 1..Len(rows) :
                  /\ rows[i].role = said[i].sender_type
                  /\ rows[i].content = said[i].content]_vars

\* The stored creation time of a session.
CreatedAt(session_id) == (CHOOSE s \in sessions : s.session_id = session_id).created_at

\* C13: get_user_sessions(email) lists every session of the student with that
\* email exactly once, later created_at first, each with the number of
\* messages appended to it, which is 0 for a session without messages.
C13_ListsEverySessionWithCount ==
  \A p \in Procs :
    Returned(p, "get_user_sessions") =>
      LET rows == result[p].rows
          owned == {s \in sessions :
                      \E st \in students : st.email = op[p].email /\ st.student_id = s.student_id}
      IN /\ Len(rows) = Cardinality(owned)
         /\ {rows[i].session_id : i \in 1..Len(rows)} = {s.session_id : s \in owned}
         /\ \A i, j \in 1..Len(rows) :
              i < j => CreatedAt(rows[i].session_id) >= CreatedAt(rows[j].session_id)
         /\ \A i \in 1..Len(rows) :
              rows[i].message_count = Len(AppendedTo(rows[i].session_id))

\* A listing of two sessions, one with a message and one without, was returned.
C13_Witness ==
  \E p \in Procs :
    /\ Returned(p, "get_user_sessions")
    /\ Len(result[p].rows) = 2
    /\ \E i, j \in 1..2 :
         /\ result[p].rows[i].message_count = 0
         /\ result[p].rows[j].message_count = 1

\* The three calls on something that is not there, and what they are to give.
AbsenceResult(p) ==
  CASE op[p].name = "get_conversation_history" -> [kind |-> "history", rows |-> <<>>]
    [] op[p].name = "session_exists" -> [kind |-> "bool", value |-> FALSE]
    [] op[p].name = "get_session_name" -> [kind |-> "name", found |-> FALSE, session_name |-> ""]
    [] OTHER -> NoResult

AsksForAbsent(p) ==
  \/ op[p].name = "get_conversation_history"
       /\ \A m \in messages : m.session_id # op[p].session_id
  \/ op[p].name \in {"session_exists", "get_session_name"}
       /\ \A s \in sessions : s.session_id # op[p].session_id

\* C14: get_conversation_history on a session without messages returns the
\* empty list, session_exists on an unknown id returns False and
\* get_session_name on an unknown id returns None: the query of such a call
\* either gives that value or fails because the database does, and a call that
\* ended has returned that value unless the connection failed.
C14_AbsenceIsAResult ==
  \A p \in Procs :
    AsksForAbsent(p) =>
      /\ pc[p] \in {"commit", "close", "done"} /\ outcome[p] \in {"none", "ok"} =>
           result[p] = AbsenceResult(p)
      /\ pc[p] = "done" =>
           outcome[p] \in {"ok", "OperationalError", "InterfaceError"}

\* get_session_name has returned None for an unknown id while the tables
\* hold a session and a message.
C14_Witness ==
  \E p \in Procs :
    /\ pc[p] = "done"
    /\ outcome[p] = "ok"
    /\ AsksForAbsent(p)
    /\ op[p].name = "get_session_name"
    /\ result[p].found = FALSE
    /\ sessions # {}
    /\ messages # {}

\* An email that is empty or holds only whitespace.
Blank(email) == Strip(email) = ""

\* C15: a call with a blank email is turned down before it touches the
\* database: a start_session that was refused has opened no connection, a
\* get_or_create_student call with a blank email runs no statement, and no
\* student is stored under a blank email.
C15_MalformedEmailRejected ==
  /\ \A p \in Procs :
       /\ op[p].name = "start_session" => conn[p] = NoConn
       /\ op[p].name = "get_or_create_student" /\ Blank(op[p].email) => conn[p].tx = "none"
  /\ \A s \in students : ~Blank(s.email)

\* The messages of the sessions other than this one.
MessagesElsewhere(session_id) == {m \in messages : m.session_id # session_id}

\* C16: however save_message calls on two sessions interleave, the messages
\* of each session carry the numbers 1..N in the order in which they were
\* appended to it, as they would with the other session left alone, and no
\* step of a save_message call changes a message or the history of another
\* session.
C16_SessionsIndependent ==
  /\ [](\A sid \in SessionIds :
          LET rows == {m \in messages : m.session_id = sid}
              said == AppendedTo(sid)
          IN /\ {m.sequence_number : m \in rows} = 1..Cardinality(rows)
             /\ \A i \in 1..Len(said) :
                  \E m \in rows : /\ m.sequence_number = i
                                  /\ m.sender_type = said[i].sender_type
                                  /\ m.content = said[i].content)
  /\ [][\A p \in Procs :
          op[p].name = "save_message" /\ pc'[p] # pc[p] =>
            /\ MessagesElsewhere(op[p].session_id)' = MessagesElsewhere(op[p].session_id)
            /\ \A sid \in SessionIds \ {op[p].session_id} :
                 HistoryRows(sid)' = HistoryRows(sid)]_vars

\* Two save_message calls, one on each session, ran in overlapping
\* transactions and both committed: each session has its message number 1.
C16_Witness ==
  \E m1, m2 \in messages :
    /\ m1.session_id = 1
    /\ m2.session_id = 2
    /\ m1.sequence_number = 1
    /\ m2.sequence_number = 1
    /\ m1.created_at = m2.created_at
    /\ Quiet

\* The names of the read operations.
Reads == {"session_exists", "get_conversation_history", "get_user_sessions",
          "get_session_name"}

\* C17: no step of a session_exists, get_conversation_history,
\* get_user_sessions or get_session_name call, from its entry to its return
\* or failure, changes students, sessions or messages.
C17_ReadsChangeNothing ==
  [][\A p \in Procs :
       /\ op'[p].name \in Reads
       /\ pc'[p] # pc[p] \/ op'[p] # op[p]
       => UNCHANGED dbvars]_vars

\* session_exists has answered True for a session that holds a message.
C17_Witness ==
  \E p \in Procs :
    /\ Returned(p, "session_exists")
    /\ result[p].value
    /\ \E m \in messages : m.session_id = op[p].session_id
    /\ \E s \in students : s.last_login < now

ListedNames(session_id, email) ==
  {SessionList(rows)[i].session_name :
     <<rows, i>> \in {<<r, k>> \in UserSessionRows(email) \X SessionIds :
                        k <= Len(r) /\ r[k].session_id = session_id}}

\* C19: the name reported for a session does not change: what
\* get_session_name and get_user_sessions report for a session of a student
\* is, after any step (a further create_session by the same student
\* included), what they reported before it.
C19_SessionNameStable ==
  [][\A sid \in SessionIds, email \in Emails :
       SessionNameQuery(sid, email).found =>
         /\ SessionNameQuery(sid, email)' = SessionNameQuery(sid, email)
         /\ ListedNames(sid, email)' = ListedNames(sid, email)]_vars

\* C20: however the statements of create_session calls for one student
\* interleave, the names returned are pairwise distinct, and a
\* get_user_sessions that has returned with no call under way reports each
\* session under the name create_session returned for it.
C20_CreatedNamesDistinct ==
  /\ \A i, j \in 1..Len(createLog) :
       i # j /\ createLog[i].student_id = createLog[j].student_id =>
         createLog[i].session_name # createLog[j].session_name
  /\ \A p \in Procs :
       Returned(p, "get_user_sessions") /\ Quiet =>
         \A i \in 1..Len(result[p].rows), j \in 1..Len(createLog) :
           result[p].rows[i].session_id = createLog[j].session_id =>
             result[p].rows[i].session_name = createLog[j].session_name

\* The student that owns a session has another email than the one asked for.
OwnedByAnother(session_id, email) ==
  \E s \in sessions : /\ s.session_id = session_id
                      /\ \E st \in students : st.student_id = s.student_id /\ st.email # email

\* A lookup keyed by an email that does not match: get_user_sessions for an
\* email no student has, get_session_name for a session of another student.
AsksWithUnmatchedEmail(p) ==
  \/ op[p].name = "get_user_sessions" /\ \A st \in students : st.email # op[p].email
  \/ op[p].name = "get_session_name" /\ OwnedByAnother(op[p].session_id, op[p].email)

\* What such a lookup is to give: the empty list, None.
UnmatchedResult(p) ==
  CASE op[p].name = "get_user_sessions" -> [kind |-> "sessions", rows |-> <<>>]
    [] op[p].name = "get_session_name" -> [kind |-> "name", found |-> FALSE, session_name |-> ""]
    [] OTHER -> NoResult

\* C21: get_user_sessions for an email with no student returns the empty
\* list, and get_session_name for an existing session that belongs to the
\* student of another email returns None: the query of such a call gives that
\* value, and a call that ended has returned it unless the connection failed.
C21_UnmatchedEmailIsAbsence ==
  \A p \in Procs :
    AsksWithUnmatchedEmail(p) =>
      /\ pc[p] \in {"commit", "close", "done"} /\ outcome[p] \in {"none", "ok"} =>
           result[p] = UnmatchedResult(p)
      /\ pc[p] = "done" =>
           outcome[p] \in {"ok", "OperationalError", "InterfaceError"}

\* get_session_name has returned None for the session of one student, asked
\* with the email of another student who exists.
C21_Witness ==
  \E p \in Procs :
    /\ pc[p] = "done"
    /\ outcome[p] = "ok"
    /\ op[p].name = "get_session_name"
    /\ OwnedByAnother(op[p].session_id, op[p].email)
    /\ \E st \in students : st.email = op[p].email
    /\ result[p].found = FALSE

\* C22: in every state each message's session_id is the id of a session and
\* each session's student_id is the id of a student; and once a save_message
\* call for a session id that does not exist has ended, no message with that
\* session id is stored.
C22_ReferentialIntegrity ==
  /\ \A m \in messages : \E s \in sessions : s.session_id = m.session_id
  /\ \A s \in sessions : \E st \in students : st.student_id = s.student_id
  /\ \A p \in Procs :
       pc[p] = "done" /\ op[p].name = "save_message" /\ ~SessionRowExists(op[p].session_id) =>
         \A m \in messages : m.session_id # op[p].session_id

\* A save_message call for a session id that does not exist has been refused
\* at its insert, while another session exists and holds a message.
C22_Witness ==
  \E p \in Procs :
    /\ pc[p] = "done"
    /\ op[p].name = "save_message"
    /\ ~SessionRowExists(op[p].session_id)
    /\ outcome[p] = "IntegrityError"
    /\ messages # {}
    /\ \A m \in messages : m.session_id # op[p].session_id

\* C23: once load_past_session has loaded a conversation, the chat on display
\* has as many entries as the history the backend gave, in the same order
\* with the same contents, and every entry whose role is user is shown as
\* user, every entry whose role is assistant as assistant.
C23_LoadKeepsSpeakers ==
  event.name = "load_past_session" /\ event.stage = "returned" /\ event.error = "" =>
    /\ Len(chatbot) = Len(event.messages)
    /\ \A i \in 1..Len(event.messages) :
         /\ chatbot[i].content = event.messages[i].content
         /\ event.messages[i].role = "user" => chatbot[i].role = "user"
         /\ event.messages[i].role = "assistant" => chatbot[i].role = "assistant"

\* start_session has returned an error, to the user who made the last call.
StartSessionFailed ==
  event.name = "start_session" /\ event.stage = "returned" /\ event.error # ""

\* C24: whatever handlers were called and however their backend calls ended,
\* the chat screen is visible only when current_user_id and current_session_id
\* are both set; and when start_session has returned an error the login screen
\* is visible and the three globals are what they were when it was called.
C24_ScreensFollowGlobals ==
  /\ chat_screen => ~Falsy(current_user_id) /\ current_session_id # NoSessionId
  /\ StartSessionFailed => login_screen /\ globals = event.before

====
